---- MODULE Spec2Model ----
(***************************************************************************)
(* A model of the git implementation in src/src: the loose-object store    *)
(* (object.rs), the packet-line and varint helpers (util.rs), the pack     *)
(* decoder (pack.rs), the fetch coordinator (transfer.rs) and the commands *)
(* of main.rs.                                                             *)
(*                                                                         *)
(* Bytes are naturals 0..255, byte strings are sequences of bytes.  A      *)
(* Rust call ends in one of three ways: it returns Ok, it returns Err, or  *)
(* it panics (a failed assert, an index out of range, todo!).  The model   *)
(* keeps the three apart in the field st of every result: "ok", "err",     *)
(* "panic".                                                                *)
(***************************************************************************)
EXTENDS Integers, Sequences, FiniteSets, TLC

VARIABLES
    hdrIn,      \* parse_header: the input slice
    hdrOut,     \* parse_header: the result, or the idle value
    hdrPc,      \* "start" | "done"
    pktSrc,     \* parse_packet_lines: how the input was framed
    pktIn,      \* parse_packet_lines: the input slice
    pktOut,     \* parse_packet_lines: the result, or the idle value
    pktPc,      \* "start" | "done"
    wd,         \* the working directory: the node of "./"
    git_objects,\* the files of .git/objects: <<directory, file>> -> bytes
    last,       \* the last command run and how it ended
    nAdds,      \* the number of objects a command has added
    packFn,     \* parse_pack_file: "pack" (pack.rs) | "transfer" (transfer.rs)
    packIn,     \* parse_pack_file: the input slice
    packPc,     \* "start" | "records" | "done"
    packRest,   \* the slice input of the record loop
    packCount,  \* object_count
    packI,      \* the passes of the record loop completed
    objects,    \* pack.rs: the HashMap objects, hex identity -> packed object
    packLog,    \* transfer.rs: the "Parsed .." lines printed
    packOut,    \* parse_pack_file: the result, or the idle value
    remote,     \* clone: what the server at repo_url answers
    clonePc,    \* "start" | "fetch" | "pack" | "done"
    refs,       \* clone: the refs ls_remote returned
    request,    \* clone: the body of the want request sent
    cloneOut,   \* clone: the result, or the idle value
    files,      \* the files written outside .git/objects: path -> bytes
    insIn,      \* parse_patch_instruction: the input slice
    insOut,     \* parse_patch_instruction: the result, or the idle value
    insPc,      \* "start" | "done"
    patchSrc,   \* patch_delta: what the delta was made of, and the source
    patchIn,    \* patch_delta: the input slice, the delta
    patchOut,   \* patch_delta: the result, or the idle value
    patchPc     \* "start" | "done"

hdrVars == <<hdrIn, hdrOut, hdrPc>>
pktVars == <<pktSrc, pktIn, pktOut, pktPc>>
storeVars == <<wd, git_objects, last, nAdds>>
packVars == <<packFn, packIn, packPc, packRest, packCount, packI, objects, packLog, packOut>>
cloneVars == <<remote, clonePc, refs, request, cloneOut, files>>
deltaVars == <<insIn, insOut, insPc, patchSrc, patchIn, patchOut, patchPc>>
vars == <<hdrVars, pktVars, storeVars, packVars, cloneVars, deltaVars>>

----------------------------------------------------------------------------
(* Results of a call *)

Idle == [st |-> "idle"]
Panic == [st |-> "panic"]
Err == [st |-> "err"]

----------------------------------------------------------------------------
(* Integer arithmetic on bits *)

RECURSIVE BitOr(_, _)
\* a | b on naturals
BitOr(a, b) ==
    IF a = 0 THEN b
    ELSE IF b = 0 THEN a
    ELSE (IF (a % 2 = 1) \/ (b % 2 = 1) THEN 1 ELSE 0) + 2 * BitOr(a \div 2, b \div 2)

RECURSIVE Pow2(_)
Pow2(n) == IF n = 0 THEN 1 ELSE 2 * Pow2(n - 1)

\* x << n, on a usize wide enough for every value of the model
Shl(x, n) == x * Pow2(n)

\* util.rs: (byte & 0x80) >> 7 != 0
high_bit(byte) == (byte \div 128) % 2 # 0

\* the tail of a slice from 0-based index i: &input[i..]; i <= Len(input)
SliceFrom(input, i) == SubSeq(input, i + 1, Len(input))

----------------------------------------------------------------------------
(* util.rs: parse_size *)

RECURSIVE parse_size_loop(_, _, _)
\* the while loop of parse_size at 0-based index i with the value so far;
\* the test high_bit(input[i]) reads input[i], which panics past the end
parse_size_loop(input, i, value) ==
    IF i >= Len(input) THEN Panic
    ELSE IF high_bit(input[i + 1])
         THEN IF i + 1 >= Len(input) THEN Panic
              ELSE parse_size_loop(input, i + 1,
                                   BitOr(value, Shl(input[i + 2] % 128, 7)))
         ELSE [st |-> "ok", rest |-> SliceFrom(input, i + 1), value |-> value]

parse_size(input) ==
    IF Len(input) = 0 THEN Panic
    ELSE parse_size_loop(input, 0, input[1] % 16)

----------------------------------------------------------------------------
(* pack.rs: PackedObject::parse_header *)

\* the width of an object identity in raw bytes (20 for SHA-1); its hex
\* form has twice as many digits
HashBytes == 2
HexLen == 2 * HashBytes

HexDigit(n) == IF n < 10 THEN 48 + n ELSE 87 + n

RECURSIVE hex_encode(_)
\* hex::encode: two lowercase hex digits per byte
hex_encode(bytes) ==
    IF bytes = <<>> THEN <<>>
    ELSE <<HexDigit(Head(bytes) \div 16), HexDigit(Head(bytes) % 16)>>
         \o hex_encode(Tail(bytes))

\* the match on (input[0] & 0x70) >> 4
PackedObjectType(code) ==
    CASE code = 1 -> "Commit"
      [] code = 2 -> "Tree"
      [] code = 3 -> "Blob"
      [] code = 4 -> "Tag"
      [] code = 6 -> "OfsDelta"
      [] code = 7 -> "RefDelta"
      [] OTHER -> "invalid"

\* the size part: the low nibble of the first byte, extended by parse_size
\* of the bytes after it when the first byte's high bit is set
parse_header_size(input) ==
    IF high_bit(input[1])
    THEN LET r == parse_size(SliceFrom(input, 1)) IN
         IF r.st # "ok" THEN r
         ELSE [st |-> "ok", rest |-> r.rest,
               value |-> BitOr(input[1] % 16, Shl(r.value, 4))]
    ELSE [st |-> "ok", rest |-> SliceFrom(input, 1), value |-> input[1] % 16]

\* the result is (rest, (type, size)); base is the delta base of a delta
\* type (the offset of an OfsDelta, the hex identity of a RefDelta)
parse_header(input) ==
    IF Len(input) = 0 THEN Panic
    ELSE LET ty == PackedObjectType((input[1] \div 16) % 8) IN
         IF ty = "invalid" THEN Err
         ELSE LET s == parse_header_size(input) IN
              IF s.st # "ok" THEN s
              ELSE CASE ty = "OfsDelta" ->
                          LET o == parse_size(s.rest) IN
                          IF o.st # "ok" THEN o
                          ELSE [st |-> "ok", rest |-> o.rest, ty |-> ty,
                                size |-> s.value, base |-> o.value]
                     [] ty = "RefDelta" ->
                          IF Len(s.rest) < HashBytes THEN Panic
                          ELSE [st |-> "ok", rest |-> SliceFrom(s.rest, HashBytes),
                                ty |-> ty, size |-> s.value,
                                base |-> hex_encode(SubSeq(s.rest, 1, HashBytes))]
                     [] OTHER ->
                          [st |-> "ok", rest |-> s.rest, ty |-> ty,
                           size |-> s.value, base |-> <<>>]

----------------------------------------------------------------------------
(* Specification SpecHdr: parse_header on every bounded input *)

\* the longest header input
MaxHdrLen == 3

\* first bytes and continuation bytes that set every field of a header byte
HdrBytes == {0, 14, 16, 29, 45, 63, 127, 128, 142, 144, 157, 255}

RECURSIVE SeqsUpTo(_, _)
\* the sequences over S of length at most n
SeqsUpTo(S, n) ==
    IF n = 0 THEN {<<>>}
    ELSE LET shorter == SeqsUpTo(S, n - 1) IN
         shorter \cup {Append(s, x) : s \in {t \in shorter : Len(t) = n - 1}, x \in S}

HdrIdle ==
    /\ hdrIn = <<>>
    /\ hdrOut = Idle
    /\ hdrPc = "off"

PktIdle ==
    /\ pktSrc = Idle
    /\ pktIn = <<>>
    /\ pktOut = Idle
    /\ pktPc = "off"

StoreIdle ==
    /\ wd = Idle
    /\ git_objects = <<>>
    /\ last = Idle
    /\ nAdds = 0

PackIdle ==
    /\ packFn = "off"
    /\ packIn = <<>>
    /\ packPc = "off"
    /\ packRest = <<>>
    /\ packCount = 0
    /\ packI = 0
    /\ objects = <<>>
    /\ packLog = <<>>
    /\ packOut = Idle

CloneIdle ==
    /\ remote = Idle
    /\ clonePc = "off"
    /\ refs = <<>>
    /\ request = <<>>
    /\ cloneOut = Idle
    /\ files = <<>>

InsIdle ==
    /\ insIn = <<>>
    /\ insOut = Idle
    /\ insPc = "off"

PatchIdle ==
    /\ patchSrc = Idle
    /\ patchIn = <<>>
    /\ patchOut = Idle
    /\ patchPc = "off"

DeltaIdle == InsIdle /\ PatchIdle

HdrInit ==
    /\ hdrIn \in SeqsUpTo(HdrBytes, MaxHdrLen)
    /\ hdrOut = Idle
    /\ hdrPc = "start"
    /\ PktIdle
    /\ StoreIdle
    /\ PackIdle
    /\ CloneIdle
    /\ DeltaIdle

ParseHeader ==
    /\ hdrPc = "start"
    /\ hdrOut' = parse_header(hdrIn)
    /\ hdrPc' = "done"
    /\ UNCHANGED <<hdrIn, pktVars, storeVars, packVars, cloneVars, deltaVars>>

HdrNext == ParseHeader

SpecHdr == HdrInit /\ [][HdrNext]_vars

----------------------------------------------------------------------------
(* C9 *)

\* the 0-based index of the last byte of the size field: the first byte
\* whose high bit is clear; Len(input) when there is none
RECURSIVE LastHeaderByte(_, _)
LastHeaderByte(input, i) ==
    IF i >= Len(input) THEN Len(input)
    ELSE IF high_bit(input[i + 1]) THEN LastHeaderByte(input, i + 1) ELSE i

RECURSIVE ContinuationSum(_, _, _)
\* sum over i in from..end of (b_i & 0x7f) << (4 + 7 * (i - 1))
ContinuationSum(input, i, end) ==
    IF i > end THEN 0
    ELSE Shl(input[i + 1] % 128, 4 + 7 * (i - 1)) + ContinuationSum(input, i + 1, end)

\* the size the format gives a header
FormatSize(input) ==
    (input[1] % 16) + ContinuationSum(input, 1, LastHeaderByte(input, 0))

\* a header of a base kind (commit, tree, blob, tag) whose size field ends
\* inside the input
BaseHeader(input) ==
    /\ Len(input) > 0
    /\ PackedObjectType((input[1] \div 16) % 8) \in {"Commit", "Tree", "Blob", "Tag"}
    /\ LastHeaderByte(input, 0) < Len(input)

\* C9: for every pack record header the decoded kind is bits 6-4 of the
\* first byte, the decoded size is (b0 & 0x0f) | sum of (b_i & 0x7f) <<
\* (4 + 7*(i-1)) over all continuation bytes, and the remainder starts
\* right after the last header byte.
C9_HeaderDecodes ==
    (hdrPc = "done" /\ BaseHeader(hdrIn)) =>
        /\ hdrOut.st = "ok"
        /\ hdrOut.ty = PackedObjectType((hdrIn[1] \div 16) % 8)
        /\ hdrOut.size = FormatSize(hdrIn)
        /\ hdrOut.rest = SliceFrom(hdrIn, LastHeaderByte(hdrIn, 0) + 1)

----------------------------------------------------------------------------
(* util.rs: parse_packet_lines (transfer.rs holds a copy, line for line) *)

\* b'\n'
LF == 10

\* "PACK"
PACK == <<80, 65, 67, 75>>
\* "0000"
FLUSH == <<48, 48, 48, 48>>
\* "# service=git-upload-pack"
SERVICE ==
    <<35, 32, 115, 101, 114, 118, 105, 99, 101, 61, 103, 105, 116, 45, 117,
      112, 108, 111, 97, 100, 45, 112, 97, 99, 107>>

\* char::to_digit(16): 0-9, a-f, A-F; -1 for any other byte
HexValue(c) ==
    IF c >= 48 /\ c <= 57 THEN c - 48
    ELSE IF c >= 97 /\ c <= 102 THEN c - 87
    ELSE IF c >= 65 /\ c <= 70 THEN c - 55
    ELSE -1

RECURSIVE DigitsValue(_, _, _)
\* the value of a digit string in a radix, or -1 when a byte is no digit
DigitsValue(digits, radix, acc) ==
    IF digits = <<>> THEN acc
    ELSE LET d == HexValue(Head(digits)) IN
         IF d < 0 \/ d >= radix THEN -1
         ELSE DigitsValue(Tail(digits), radix, acc * radix + d)

\* str::from_utf8 followed by an unsigned from_str_radix / parse: an
\* optional leading '+', then at least one digit; -1 stands for Err.  The
\* model's text is ASCII: a byte above 127 is taken as invalid UTF-8.
from_str_radix(text, radix) ==
    IF \E i \in 1..Len(text) : text[i] > 127 THEN -1
    ELSE LET digits == IF Len(text) > 0 /\ text[1] = 43 THEN Tail(text) ELSE text IN
         IF digits = <<>> THEN -1 ELSE DigitsValue(digits, radix, 0)

RECURSIVE parse_packet_lines_loop(_, _)
\* one pass of the loop, with the lines pushed so far
parse_packet_lines_loop(rest, lines) ==
    IF Len(rest) < 4 THEN Panic                        \* &rest[0..4]
    ELSE IF SubSeq(rest, 1, 4) = PACK
    THEN [st |-> "ok", rest |-> <<>>, lines |-> Append(lines, rest)]
    ELSE LET line_length == from_str_radix(SubSeq(rest, 1, 4), 16)
             rest4 == SliceFrom(rest, 4)
         IN
         IF line_length < 0 THEN Err
         ELSE IF line_length = 0 THEN [st |-> "ok", rest |-> rest4, lines |-> lines]
         ELSE IF line_length < 5 THEN Panic            \* line_length - 5 below zero
         ELSE IF line_length - 5 >= Len(rest4) THEN Panic  \* rest[line_length - 5]
         ELSE LET line == IF rest4[line_length - 4] = LF
                          THEN SubSeq(rest4, 1, line_length - 5)
                          ELSE SubSeq(rest4, 1, line_length - 4)
              IN parse_packet_lines_loop(SliceFrom(rest4, line_length - 4),
                                         Append(lines, line))

parse_packet_lines(input) == parse_packet_lines_loop(input, <<>>)

----------------------------------------------------------------------------
(* Specification SpecPkt: parse_packet_lines on framed and on broken input *)

\* the most packet lines of a framed input
MaxPktLines == 2

\* format!("{:04x}", n) for n < 65536
Hex4(n) ==
    <<HexDigit((n \div 4096) % 16), HexDigit((n \div 256) % 16),
      HexDigit((n \div 16) % 16), HexDigit(n % 16)>>

\* one packet line: the length prefix counts itself
PktLine(payload) == Hex4(Len(payload) + 4) \o payload

RECURSIVE PktFrame(_)
PktFrame(payloads) ==
    IF payloads = <<>> THEN <<>> ELSE PktLine(Head(payloads)) \o PktFrame(Tail(payloads))

\* payloads: empty, "x", "x\n", "\n", "x\n\n", "xy"
PktPayloads == {<<>>, <<120>>, <<120, 10>>, <<10>>, <<120, 10, 10>>, <<120, 121>>}

\* what follows the flush packet: nothing, a byte, another section
PktTrails == {<<>>, <<120>>, PktLine(<<120>>) \o FLUSH}

\* input that is not a framed section: a short length, a length that is
\* not hex, lengths below 4, a line longer than the input, no flush, a
\* signed length, a pack
PktBroken ==
    {<<>>, <<48, 48>>, <<48, 48, 122, 122>>, <<48, 48, 48, 49>>, <<48, 48, 48, 51>>,
     <<48, 48, 48, 54, 120>>, PktLine(<<120>>), <<43, 48, 48, 53, 120>> \o FLUSH,
     <<45, 48, 48, 53, 120>> \o FLUSH, PACK \o <<1, 2>>,
     PktLine(<<120>>) \o PACK \o <<1, 2>>, <<48, 48, 48, 255>>}

PktSources ==
    {[wf |-> TRUE, lines |-> ls, trail |-> t] :
        ls \in SeqsUpTo(PktPayloads, MaxPktLines), t \in PktTrails}
    \cup {[wf |-> TRUE, lines |-> <<SERVICE \o <<LF>> >>, trail |-> <<>>]}
    \cup {[wf |-> FALSE, bytes |-> b] : b \in PktBroken}

PktBytes(src) ==
    IF src.wf THEN PktFrame(src.lines) \o FLUSH \o src.trail ELSE src.bytes

PktInit ==
    /\ pktSrc \in PktSources
    /\ pktIn = PktBytes(pktSrc)
    /\ pktOut = Idle
    /\ pktPc = "start"
    /\ HdrIdle
    /\ StoreIdle
    /\ PackIdle
    /\ CloneIdle
    /\ DeltaIdle

ParsePacketLines ==
    /\ pktPc = "start"
    /\ pktOut' = parse_packet_lines(pktIn)
    /\ pktPc' = "done"
    /\ UNCHANGED <<pktSrc, pktIn, hdrVars, storeVars, packVars, cloneVars, deltaVars>>

PktNext == ParsePacketLines

SpecPkt == PktInit /\ [][PktNext]_vars

----------------------------------------------------------------------------
(* C8 *)

\* a payload with at most one trailing newline removed
TrimOne(payload) ==
    IF Len(payload) > 0 /\ payload[Len(payload)] = LF
    THEN SubSeq(payload, 1, Len(payload) - 1)
    ELSE payload

\* C8: for every input that is a sequence of well-formed packet lines, a
\* flush packet and any bytes after it, parse_packet_lines returns the
\* lines in order, each the payload with at most one trailing newline
\* removed, and as remainder exactly the bytes after the flush packet.
C8_FramedSectionDecodes ==
    (pktPc = "done" /\ pktSrc.wf) =>
        /\ pktOut.st = "ok"
        /\ pktOut.lines = [i \in 1..Len(pktSrc.lines) |-> TrimOne(pktSrc.lines[i])]
        /\ pktOut.rest = pktSrc.trail

\* the case of the repository's test: "001e# service=git-upload-pack\n0000"
\* gives the one line "# service=git-upload-pack" and an empty remainder
C8_ServiceLineDecodes ==
    (pktPc = "done" /\ pktIn = Hex4(30) \o SERVICE \o <<LF>> \o FLUSH) =>
        pktOut = [st |-> "ok", rest |-> <<>>, lines |-> <<SERVICE>>]

----------------------------------------------------------------------------
(* Digest and compression                                                  *)
(*                                                                         *)
(* Sha1 stands for the SHA-1 digest: a fixed function from byte strings to *)
(* HashBytes raw bytes.  Zlib stands for the zlib stream: a marker byte,   *)
(* the length of the data, the data and a checksum, so that a decoder      *)
(* knows where the stream ends and rejects a damaged one.                  *)

RECURSIVE PowMod(_, _)
\* 31^n modulo m
PowMod(n, m) ==
    IF n = 0 THEN 1
    ELSE LET h == PowMod(n \div 2, m) IN
         (((h * h) % m) * (IF n % 2 = 1 THEN 31 ELSE 1)) % m

RECURSIVE PolyHash(_)
\* sum of (bytes[i] + 1) * 31^(n - i) modulo 32749, by halves
PolyHash(bytes) ==
    IF bytes = <<>> THEN 0
    ELSE IF Len(bytes) = 1 THEN bytes[1] + 1
    ELSE LET m == Len(bytes) \div 2
             left == SubSeq(bytes, 1, m)
             right == SubSeq(bytes, m + 1, Len(bytes))
         IN (PolyHash(left) * PowMod(Len(right), 32749) + PolyHash(right)) % 32749

\* Sha1::new(), update(..), finalize(): the digest of all the bytes fed
Sha1(bytes) ==
    LET h == PolyHash(bytes) IN
    [k \in 1..HashBytes |->
        ((h * k + Len(bytes) + 7 * k) \div (IF k % 2 = 1 THEN 1 ELSE 256)) % 256]

RECURSIVE ByteSum(_)
\* the sum of the bytes, by halves
ByteSum(bytes) ==
    IF bytes = <<>> THEN 0
    ELSE IF Len(bytes) = 1 THEN bytes[1]
    ELSE LET m == Len(bytes) \div 2 IN
         ByteSum(SubSeq(bytes, 1, m)) + ByteSum(SubSeq(bytes, m + 1, Len(bytes)))

\* flate2::write::ZlibEncoder: everything written, then the end of stream
ZlibEncode(bytes) == <<120, Len(bytes)>> \o bytes \o <<ByteSum(bytes) % 256>>

\* flate2::read::ZlibDecoder, read_to_end: the content and total_in, the
\* number of input bytes the stream took; Err on a damaged stream
ZlibDecode(input) ==
    IF Len(input) < 3 \/ input[1] # 120 THEN Err
    ELSE LET n == input[2] IN
         IF Len(input) < n + 3 THEN Err
         ELSE LET content == SubSeq(input, 3, n + 2) IN
              IF input[n + 3] # ByteSum(content) % 256 THEN Err
              ELSE [st |-> "ok", content |-> content, total_in |-> n + 3]

----------------------------------------------------------------------------
(* object.rs: the object model and its canonical encoding *)

SP == 32
NUL == 0

RECURSIVE ToRadix(_, _)
ToRadix(n, radix) ==
    IF n < radix THEN <<48 + n>> ELSE Append(ToRadix(n \div radix, radix), 48 + (n % radix))

\* usize::to_string, format!("{}", n)
to_string(n) == ToRadix(n, 10)

\* format!("{:o}", n)
to_octal(n) == ToRadix(n, 8)

RECURSIVE hex_decode(_)
\* hex::decode of a string of hex digits of even length
hex_decode(text) ==
    IF Len(text) < 2 THEN <<>>
    ELSE <<16 * HexValue(text[1]) + HexValue(text[2])>> \o hex_decode(SliceFrom(text, 2))

Blob(content) == [kind |-> "Blob", content |-> content]
Tree(entries) == [kind |-> "Tree", entries |-> entries]
\* parent_hash is an Option: <<>> for None, <<h>> for Some(h)
Commit(tree_hash, parent_hash, message, timestamp) ==
    [kind |-> "Commit", tree_hash |-> tree_hash, parent_hash |-> parent_hash,
     message |-> message, timestamp |-> timestamp]
TreeEntry(mode, name, hash) == [mode |-> mode, name |-> name, hash |-> hash]

\* Commit::encode
Commit_encode(c) ==
    <<116, 114, 101, 101, 32>> \o c.tree_hash \o <<LF>>
    \o (IF c.parent_hash # <<>>
        THEN <<112, 97, 114, 101, 110, 116, 32>> \o c.parent_hash[1] \o <<LF>>
        ELSE <<>>)
    \o <<97, 117, 116, 104, 111, 114, 32, 65, 117, 116, 104, 111, 114, 32, 78, 97,
         109, 101, 32, 60, 97, 117, 116, 104, 111, 114, 64, 101, 120, 97, 109, 112,
         108, 101, 46, 99, 111, 109, 62, 32>>
    \o to_string(c.timestamp) \o <<32, 43, 48, 48, 48, 48, 10>>
    \o <<99, 111, 109, 109, 105, 116, 116, 101, 114, 32, 67, 111, 109, 109, 105,
         116, 116, 101, 114, 32, 78, 97, 109, 101, 32, 60, 99, 111, 109, 109, 105,
         116, 116, 101, 114, 64, 101, 120, 97, 109, 112, 108, 101, 46, 99, 111,
         109, 62, 32>>
    \o to_string(c.timestamp) \o <<32, 43, 48, 48, 48, 48, 10>>
    \o <<LF>> \o c.message \o <<LF>>

Commit_encoded_len(c) == Len(Commit_encode(c))

\* TreeEntry::encoded_len counting no zero byte after the name
TreeEntry_encoded_len_NoNul(e) == Len(e.mode) + 1 + Len(e.name) + HashBytes

\* TreeEntry::encoded_len: mode + space + name + \0 + the raw hash
TreeEntry_encoded_len(e) == Len(e.mode) + 1 + Len(e.name) + 1 + HashBytes

\* TreeEntry::encode
TreeEntry_encode(e) == e.mode \o <<SP>> \o e.name \o <<NUL>> \o hex_decode(e.hash)

RECURSIVE SumEncodedLen(_)
SumEncodedLen(entries) ==
    IF entries = <<>> THEN 0
    ELSE TreeEntry_encoded_len(Head(entries)) + SumEncodedLen(Tail(entries))

RECURSIVE EncodeEntries(_)
\* for entry in entries.iter(): entry.encode(), one after the other
EncodeEntries(entries) ==
    IF entries = <<>> THEN <<>>
    ELSE TreeEntry_encode(Head(entries)) \o EncodeEntries(Tail(entries))

\* Object::header
header(o) ==
    CASE o.kind = "Blob" -> <<98, 108, 111, 98, 32>> \o to_string(Len(o.content))
      [] o.kind = "Tree" -> <<116, 114, 101, 101, 32>> \o to_string(SumEncodedLen(o.entries))
      [] o.kind = "Commit" ->
            <<99, 111, 109, 109, 105, 116, 32>> \o to_string(Commit_encoded_len(o))

\* the match of Object::add and of Object::hash: what follows the header
\* and the zero byte
Encoded(o) ==
    CASE o.kind = "Blob" -> o.content
      [] o.kind = "Tree" -> EncodeEntries(o.entries)
      [] o.kind = "Commit" -> Commit_encode(o)

\* Object::hash
hash(o) == hex_encode(Sha1(header(o) \o <<NUL>> \o Encoded(o)))

\* the path of an object file under .git/objects: <<directory, file>>
ObjectPath(name) == <<SubSeq(name, 1, 2), SubSeq(name, 3, HexLen)>>

\* what Object::add writes through the encoder
AddStream(o) == header(o) \o <<NUL>> \o Encoded(o)

\* Object::add on the files of .git/objects: File::create makes or
\* truncates the file, the encoder writes the stream and finishes it
add(dir, o) ==
    LET path == ObjectPath(hash(o)) IN
    [p \in DOMAIN dir \cup {path} |->
        IF p = path THEN ZlibEncode(AddStream(o)) ELSE dir[p]]

----------------------------------------------------------------------------
(* object.rs: TreeEntry::parse and Object::parse *)

RECURSIVE IndexOf(_, _, _)
\* the loop "while input[i] != byte { i += 1 }" from 0-based index i: the
\* index found, or -1 when the loop runs past the end (a panic)
IndexOf(input, byte, i) ==
    IF i >= Len(input) THEN -1
    ELSE IF input[i + 1] = byte THEN i
    ELSE IndexOf(input, byte, i + 1)

\* std::str::from_utf8 fails: the model's text is ASCII
NotUtf8(bytes) == \E i \in 1..Len(bytes) : bytes[i] > 127

starts_with(text, prefix) ==
    Len(text) >= Len(prefix) /\ SubSeq(text, 1, Len(prefix)) = prefix

\* TreeEntry::parse: (rest, entry)
TreeEntry_parse(input) ==
    LET i == IndexOf(input, SP, 0) IN
    IF i < 0 THEN Panic
    ELSE LET mode == SubSeq(input, 1, i)
             input1 == SliceFrom(input, i + 1)
             j == IndexOf(input1, NUL, 0)
         IN
         IF NotUtf8(mode) THEN Err
         ELSE IF j < 0 THEN Panic
         ELSE LET name == SubSeq(input1, 1, j)
                  input2 == SliceFrom(input1, j + 1)
              IN
              IF NotUtf8(name) THEN Err
              ELSE IF Len(input2) < HashBytes THEN Panic
              ELSE [st |-> "ok", rest |-> SliceFrom(input2, HashBytes),
                    entry |-> TreeEntry(mode, name,
                                        hex_encode(SubSeq(input2, 1, HashBytes)))]

RECURSIVE parse_entries(_, _)
\* the loop "while !rest.is_empty()" of the tree branch
parse_entries(rest, entries) ==
    IF rest = <<>> THEN [st |-> "ok", obj |-> Tree(entries)]
    ELSE LET r == TreeEntry_parse(rest) IN
         IF r.st # "ok" THEN r
         ELSE parse_entries(r.rest, Append(entries, r.entry))

\* the body of Object::parse after decompression: the header up to the
\* first zero byte, then the branch on its first word
parse_content(content) ==
    LET i == IndexOf(content, NUL, 0) IN
    IF i < 0 THEN Panic
    ELSE LET object_header == SubSeq(content, 1, i)
             object_content == SliceFrom(content, i + 1)
             \* object_header[5..].parse::<usize>()
             object_size == from_str_radix(SliceFrom(object_header, 5), 10)
         IN
         IF NotUtf8(object_header) THEN Err
         ELSE IF starts_with(object_header, <<98, 108, 111, 98>>)
         THEN IF Len(object_header) < 5 THEN Panic
              ELSE IF object_size < 0 THEN Err
              ELSE IF Len(object_content) # object_size THEN Panic
              ELSE [st |-> "ok", obj |-> Blob(object_content)]
         ELSE IF starts_with(object_header, <<116, 114, 101, 101>>)
         THEN IF Len(object_header) < 5 THEN Panic
              ELSE IF object_size < 0 THEN Err
              ELSE IF Len(object_content) # object_size THEN Panic
              ELSE parse_entries(object_content, <<>>)
         ELSE IF starts_with(object_header, <<99, 111, 109, 109, 105, 116>>)
         THEN Panic                                   \* todo!("parsing commit object")
         ELSE Err                                     \* bail!("invalid object")

\* Object::parse(path) on the files of .git/objects
parse(dir, path) ==
    IF path \notin DOMAIN dir THEN Err                \* std::fs::read(..)?
    ELSE LET z == ZlibDecode(dir[path]) IN
         IF z.st # "ok" THEN Err                      \* read_to_end(..)?
         ELSE parse_content(z.content)

----------------------------------------------------------------------------
(* object.rs: Object::new_from_path and TreeEntry::new                     *)
(*                                                                         *)
(* A node of the working directory is a file                               *)
(*   [is_dir |-> FALSE, perm |-> permission bits, content |-> bytes]       *)
(* or a directory [is_dir |-> TRUE, children |-> [names -> nodes]].        *)

\* the file type bits of st_mode for a regular file (S_IFREG, 0o100000),
\* which metadata.permissions().mode() returns with the permission bits
S_IFREG == 32768

\* ".git"
DOTGIT == <<46, 103, 105, 116>>

RECURSIVE LexLess(_, _)
\* String's Ord: byte-lexicographic, a proper prefix first
LexLess(a, b) ==
    IF b = <<>> THEN FALSE
    ELSE IF a = <<>> THEN TRUE
    ELSE IF Head(a) # Head(b) THEN Head(a) < Head(b)
    ELSE LexLess(Tail(a), Tail(b))

RECURSIVE InsertByName(_, _)
\* e put after the entries whose name is not greater: sort_by_key is stable
InsertByName(sorted, e) ==
    IF sorted = <<>> THEN <<e>>
    ELSE IF LexLess(e.name, Head(sorted).name) THEN <<e>> \o sorted
    ELSE <<Head(sorted)>> \o InsertByName(Tail(sorted), e)

RECURSIVE sort_by_key(_)
\* entries.sort_by_key(|e| e.name.clone())
sort_by_key(entries) ==
    IF entries = <<>> THEN <<>>
    ELSE InsertByName(sort_by_key(SubSeq(entries, 1, Len(entries) - 1)),
                      entries[Len(entries)])

RECURSIVE SetToSeq(_)
\* std::fs::read_dir: the names of a directory in the order the file
\* system gives them
SetToSeq(S) ==
    IF S = {} THEN <<>>
    ELSE LET x == CHOOSE y \in S : TRUE IN <<x>> \o SetToSeq(S \ {x})

RECURSIVE new_from_path(_)
\* Object::new_from_path on a node; TreeEntry::new on each child that is
\* not ".git": its mode, its name, and the hash of the object made of it
new_from_path(node) ==
    IF node.is_dir
    THEN LET names == SetToSeq(DOMAIN node.children \ {DOTGIT})
             TreeEntry_new(name) ==
                LET child == node.children[name] IN
                TreeEntry(IF child.is_dir THEN <<52, 48, 48, 48, 48>>
                          ELSE to_octal(S_IFREG + child.perm),
                          name, hash(new_from_path(child)))
         IN Tree(sort_by_key([i \in 1..Len(names) |-> TreeEntry_new(names[i])]))
    ELSE Blob(node.content)

RECURSIVE Lookup(_, _)
\* the node at a path (a sequence of names) below a node, or Err
Lookup(node, path) ==
    IF path = <<>> THEN node
    ELSE IF ~node.is_dir \/ Head(path) \notin DOMAIN node.children THEN Err
    ELSE Lookup(node.children[Head(path)], Tail(path))

----------------------------------------------------------------------------
(* main.rs: the commands on the store *)

\* the objects commands may add in one run
MaxAdds == 1

\* names: "a", "a.", "b"
Names == {<<97>>, <<97, 46>>, <<98>>}
\* the names inside a subdirectory
SubNames == {<<97>>}
\* permission bits 0o644 and 0o755
Files ==
    {[is_dir |-> FALSE, perm |-> 420, content |-> <<120>>],
     [is_dir |-> FALSE, perm |-> 493, content |-> <<>>]}

Dir(children) == [is_dir |-> TRUE, children |-> children]

PartialFns(D, R) == UNION {[S -> R] : S \in SUBSET D}

\* the subdirectories: each holds one file
SubDirs == {Dir(f) : f \in [SubNames -> {x \in Files : x.perm = 420}]}

\* the working directories: an initialised repository (".git" exists)
\* with files and subdirectories
WorkDirs == {Dir(f @@ (DOTGIT :> Dir(<<>>))) : f \in PartialFns(Names, Files \cup SubDirs)}

\* a 40-digit name that names no object, and one of the wrong length
NoHash == [i \in 1..HexLen |-> 48]
ShortHash == <<48>>

\* the names of the object files present
StoredNames == {p[1] \o p[2] : p \in DOMAIN git_objects}

\* the arguments tried for an object name
NameArgs == StoredNames \cup {NoHash, ShortHash}

\* the paths tried for hash-object: "./", every name, every name in a name
PathArgs == {<<>>} \cup {<<n>> : n \in Names} \cup {<<n, m>> : n \in Names, m \in SubNames}

\* SystemTime::now() in seconds since the epoch
Timestamps == {7, 1700000000}

StoreInit ==
    /\ wd \in WorkDirs
    /\ git_objects = <<>>
    /\ last = Idle
    /\ nAdds = 0
    /\ HdrIdle
    /\ PktIdle
    /\ PackIdle
    /\ CloneIdle
    /\ DeltaIdle

notStoreVars == <<hdrVars, pktVars, packVars, cloneVars, deltaVars>>

\* hash_object(path, write)
HashObject ==
    \E write \in BOOLEAN, path \in PathArgs :
        /\ nAdds < MaxAdds
        /\ LET node == Lookup(wd, path) IN
           IF ~write
           THEN /\ last' = [op |-> "hash_object", st |-> "panic"]   \* assert!(write)
                /\ UNCHANGED <<git_objects, nAdds>>
           ELSE IF node = Err
           THEN /\ last' = [op |-> "hash_object", st |-> "err"]     \* metadata(&path)?
                /\ UNCHANGED <<git_objects, nAdds>>
           ELSE LET object == new_from_path(node) IN
                /\ git_objects' = add(git_objects, object)
                /\ nAdds' = nAdds + 1
                /\ last' = [op |-> "hash_object", st |-> "ok", object |-> object,
                            out |-> hash(object)]
        /\ UNCHANGED <<wd, notStoreVars>>

\* write_tree()
WriteTree ==
    /\ nAdds < MaxAdds
    /\ LET object == new_from_path(wd) IN
       /\ git_objects' = add(git_objects, object)
       /\ nAdds' = nAdds + 1
       /\ last' = [op |-> "write_tree", st |-> "ok", object |-> object,
                   out |-> hash(object)]
    /\ UNCHANGED <<wd, notStoreVars>>

\* commit_tree(tree_hash, parents, message); the timestamp is the clock's
CommitTree ==
    \E tree_hash \in NameArgs, parents \in SeqsUpTo(NameArgs, 1),
       timestamp \in Timestamps :
        /\ nAdds < MaxAdds
        /\ IF Len(tree_hash) # HexLen \/ Len(parents) # 1 \/ Len(parents[1]) # HexLen
           THEN /\ last' = [op |-> "commit_tree", st |-> "panic"]   \* assert_eq!
                /\ UNCHANGED <<git_objects, nAdds>>
           ELSE LET object == Commit(tree_hash, <<parents[1]>>, <<109>>, timestamp) IN
                /\ git_objects' = add(git_objects, object)
                /\ nAdds' = nAdds + 1
                /\ last' = [op |-> "commit_tree", st |-> "ok", object |-> object,
                            out |-> hash(object)]
        /\ UNCHANGED <<wd, notStoreVars>>

\* print's expect("non utf-8 blob contents")
PrintPanics(object) == object.kind = "Blob" /\ NotUtf8(object.content)

\* Object::print: what goes to standard output
Printed(object) ==
    CASE object.kind = "Blob" -> object.content
      [] object.kind = "Tree" -> [i \in 1..Len(object.entries) |-> object.entries[i].name]
      [] object.kind = "Commit" -> Commit_encode(object)

\* the body of cat_file and of ls_tree: the flag, the length of the name,
\* Object::parse of the file at .git/objects/<2 digits>/<the rest>, the
\* kind, print
ReadObject(op, flag, name, kind) ==
    IF ~flag \/ Len(name) # HexLen
    THEN [op |-> op, name |-> name, st |-> "panic", parsed |-> Idle]
    ELSE LET parsed == parse(git_objects, ObjectPath(name)) IN
         IF parsed.st # "ok"
         THEN [op |-> op, name |-> name, st |-> parsed.st, parsed |-> parsed]
         ELSE IF parsed.obj.kind # kind \/ PrintPanics(parsed.obj)
         THEN [op |-> op, name |-> name, st |-> "panic", parsed |-> parsed]
         ELSE [op |-> op, name |-> name, st |-> "ok", parsed |-> parsed,
               out |-> Printed(parsed.obj)]

\* cat_file(object_name, pretty_print)
CatFile ==
    \E pretty_print \in BOOLEAN, object_name \in NameArgs :
        /\ last' = ReadObject("cat_file", pretty_print, object_name, "Blob")
        /\ UNCHANGED <<wd, git_objects, nAdds, notStoreVars>>

\* ls_tree(tree_hash, name_only)
LsTree ==
    \E name_only \in BOOLEAN, tree_hash \in NameArgs :
        /\ last' = ReadObject("ls_tree", name_only, tree_hash, "Tree")
        /\ UNCHANGED <<wd, git_objects, nAdds, notStoreVars>>

StoreNext == HashObject \/ WriteTree \/ CommitTree \/ CatFile \/ LsTree

SpecStore == StoreInit /\ [][StoreNext]_vars

----------------------------------------------------------------------------
(* C3 - C6: the commands that write *)

\* the last command added an object to the store
Added == last.st = "ok" /\ last.op \in {"hash_object", "write_tree", "commit_tree"}

\* the last command made a tree of a directory and added it
AddedTree == Added /\ last.op # "commit_tree" /\ last.object.kind = "Tree"

\* the decompressed bytes of the object file named by a hash
Stored(name) == ZlibDecode(git_objects[ObjectPath(name)])

\* C3: during write_tree every child object (the blob of each file, the
\* tree of each subdirectory) is put into the store before the tree that
\* names it: in every state each identity named by a tree in the store is
\* itself in the store.
C3_ChildrenStoredBeforeParent ==
    \A p \in DOMAIN git_objects :
        LET r == parse(git_objects, p) IN
        (r.st = "ok" /\ r.obj.kind = "Tree") =>
            \A i \in 1..Len(r.obj.entries) :
                ObjectPath(r.obj.entries[i].hash) \in DOMAIN git_objects

\* "blob", "tree", "commit"
KindWord(o) ==
    CASE o.kind = "Blob" -> <<98, 108, 111, 98>>
      [] o.kind = "Tree" -> <<116, 114, 101, 101>>
      [] o.kind = "Commit" -> <<99, 111, 109, 109, 105, 116>>

\* C4: for every object o, add(o) writes to .git/objects/<first two hex
\* digits of hash(o)>/<the remaining digits> a stream whose decompressed
\* bytes are exactly "<kind> <payload length>\0<payload>", the bytes that
\* hash(o) digests: the decoded file hashes back to the name in its path.
C4_AddWritesCanonicalBytes ==
    Added =>
        LET o == last.object
            path == ObjectPath(last.out)
        IN
        /\ last.out = hash(o)
        /\ path \in DOMAIN git_objects
        /\ Stored(last.out).st = "ok"
        /\ Stored(last.out).content =
               KindWord(o) \o <<SP>> \o to_string(Len(Encoded(o))) \o <<NUL>> \o Encoded(o)
        /\ hex_encode(Sha1(Stored(last.out).content)) = path[1] \o path[2]

\* a tree of two entries has been added and its file is there
C4_Witness ==
    /\ Added
    /\ last.object.kind = "Tree"
    /\ Len(last.object.entries) = 2
    /\ ObjectPath(last.out) \in DOMAIN git_objects

\* the sort key of the format: a directory's name compares as though it
\* ended in "/"
SortKey(e) == IF e.mode = <<52, 48, 48, 48, 48>> THEN e.name \o <<47>> ELSE e.name

\* C5: the entries of every tree made of a directory are unique by name
\* and strictly ordered by key, where key(e) is e.name + "/" for a
\* directory (mode 40000) and e.name otherwise.
C5_TreeEntriesOrdered ==
    AddedTree =>
        \A i \in 1..(Len(last.object.entries) - 1) :
            /\ last.object.entries[i].name # last.object.entries[i + 1].name
            /\ LexLess(SortKey(last.object.entries[i]), SortKey(last.object.entries[i + 1]))

\* C6: for every object o the store can write, parsing the canonical bytes
\* of o returns an object equal to o, and serializing the parsed object
\* again gives the same bytes.
C6_ParseInvertsEncode ==
    Added =>
        LET r == parse(git_objects, ObjectPath(last.out)) IN
        /\ r.st = "ok"
        /\ r.obj = last.object
        /\ AddStream(r.obj) = Stored(last.out).content

\* the same for blobs and trees alone
C6_BlobAndTreeRoundTrip ==
    (Added /\ last.object.kind # "Commit") =>
        LET r == parse(git_objects, ObjectPath(last.out)) IN
        /\ r.st = "ok"
        /\ r.obj = last.object
        /\ AddStream(r.obj) = Stored(last.out).content

----------------------------------------------------------------------------
(* Specification SpecGet: cat_file and ls_tree on a store that another     *)
(* program, or a damaged disk, has left behind: one file under             *)
(* .git/objects, whose name need not be the digest of its contents.        *)

\* decompressed contents: the canonical bytes of two blobs, two trees and
\* a commit, a blob whose header states the wrong length, bytes without a
\* zero byte
GetContents ==
    {AddStream(Blob(<<120>>)), AddStream(Blob(<<>>)), AddStream(Tree(<<>>)),
     AddStream(Tree(<<TreeEntry(to_octal(S_IFREG + 420), <<97>>, hash(Blob(<<120>>)))>>)),
     AddStream(Commit(NoHash, <<NoHash>>, <<109>>, 7)),
     <<98, 108, 111, 98, 32, 50, 0, 120>>, <<120>>}

\* the files: each of the contents compressed, and a damaged stream
GetFiles == {ZlibEncode(c) : c \in GetContents} \cup {<<1, 2, 3>>}

\* the places: the path of the digest of each of the contents
GetPaths == {ObjectPath(hex_encode(Sha1(c))) : c \in GetContents}

GetInit ==
    /\ wd = Idle
    /\ git_objects \in {<<>>} \cup {p :> f : p \in GetPaths, f \in GetFiles}
    /\ last = Idle
    /\ nAdds = 0
    /\ HdrIdle
    /\ PktIdle
    /\ PackIdle
    /\ CloneIdle
    /\ DeltaIdle

GetNext == CatFile \/ LsTree

SpecGet == GetInit /\ [][GetNext]_vars

----------------------------------------------------------------------------
(* C7 *)

\* the last command called Object::parse for last.name
Got == last.st # "idle" /\ last.op \in {"cat_file", "ls_tree"} /\ last.parsed.st # "idle"

\* the file at the path of the name is there, decompresses, and its
\* digest is not the name
Mismatch(name) ==
    /\ ObjectPath(name) \in DOMAIN git_objects
    /\ Stored(name).st = "ok"
    /\ hex_encode(Sha1(Stored(name).content)) # name

\* C7: get(identity) returns an object only if the digest of the
\* decompressed file equals the identity asked for: on a mismatch it
\* returns the CorruptObject error, with no file at the path it returns
\* MissingObject, and in neither case an object.  (Any way of failing
\* counts as the error here: the formula asks only that no object comes
\* back.)
C7_GetVerifiesIdentity ==
    Got =>
        /\ (ObjectPath(last.name) \notin DOMAIN git_objects => last.parsed.st = "err")
        /\ (Mismatch(last.name) => last.parsed.st # "ok")
        /\ (last.parsed.st = "ok" =>
                /\ ObjectPath(last.name) \in DOMAIN git_objects
                /\ ~Mismatch(last.name))

\* the part about a missing file alone
C7_MissingIsError ==
    (Got /\ ObjectPath(last.name) \notin DOMAIN git_objects) => last.parsed.st = "err"

----------------------------------------------------------------------------
(* pack.rs: PackedObject::parse, patch_delta, parse_patch_instruction *)

\* a panic with its message
PanicOf(msg) == [st |-> "panic", msg |-> msg]

\* PackedObject::parse: the header, then one zlib stream read to its end.
\* Object::parse of transfer.rs is the same code with the header parsed in
\* line (it negates the offset of an OfsDelta, which nothing reads).
\* The body is split in steps that take the result of the step before as
\* an argument.
PackedObject_read(h, z) ==
    IF z.st # "ok" THEN Err                            \* read_to_end(..)?
    ELSE [st |-> "ok", rest |-> SliceFrom(h.rest, z.total_in),
          ty |-> h.ty, size |-> h.size, base |-> h.base, content |-> z.content]

PackedObject_body(h) ==
    IF h.st # "ok" THEN h ELSE PackedObject_read(h, ZlibDecode(h.rest))

PackedObject_parse(input) == PackedObject_body(parse_header(input))

\* input[0] & (1 << i) != 0
BitSet(byte, i) == (byte \div Pow2(i)) % 2 = 1

RECURSIVE copy_bytes(_, _, _, _)
\* the two for loops of the Copy arm, from bit i on: a byte is read for
\* every bit set in input[0], in order; taken holds offset_bytes[0..4]
\* and then size_bytes[0..3]; input[bytes_read] panics past the end
copy_bytes(input, i, bytes_read, taken) ==
    IF i = 7 THEN [st |-> "ok", bytes_read |-> bytes_read, bytes |-> taken]
    ELSE IF BitSet(input[1], i)
         THEN IF bytes_read >= Len(input) THEN Panic
              ELSE copy_bytes(input, i + 1, bytes_read + 1,
                              Append(taken, input[bytes_read + 1]))
         ELSE copy_bytes(input, i + 1, bytes_read, Append(taken, 0))

\* u32::from_le_bytes
from_le_bytes(b) == b[1] + 256 * (b[2] + 256 * (b[3] + 256 * b[4]))

\* u32::from_be_bytes
from_be_bytes(b) == ((b[1] * 256 + b[2]) * 256 + b[3]) * 256 + b[4]

\* the Copy arm after its loops: the instruction and the rest
copy_instruction(input, c) ==
    IF c.st # "ok" THEN c
    ELSE [st |-> "ok", rest |-> SliceFrom(input, c.bytes_read),
          kind |-> "Copy",
          offset |-> from_le_bytes(SubSeq(c.bytes, 1, 4)),
          size |-> from_le_bytes(SubSeq(c.bytes, 5, 7) \o <<0>>)]

\* the Add arm with the data taken one byte early, from the count byte on
add_instruction_FromCount(input, size) ==
    IF size = 0 THEN PanicOf("invalid instruction")
    ELSE IF 1 + size > Len(input) THEN Panic
    ELSE [st |-> "ok", rest |-> SliceFrom(input, 1 + size),
          kind |-> "Add", data |-> SubSeq(input, 1, size)]

\* the Add arm
add_instruction(input, size) ==
    IF size = 0 THEN PanicOf("invalid instruction")    \* assert!(size > 0)
    ELSE IF 1 + size > Len(input) THEN Panic            \* input[1..1 + size]
    ELSE [st |-> "ok", rest |-> SliceFrom(input, 1 + size),
          kind |-> "Add", data |-> SubSeq(input, 2, 1 + size)]

\* parse_patch_instruction: (rest, instruction)
parse_patch_instruction(input) ==
    IF Len(input) = 0 THEN Panic                       \* input[0]
    ELSE IF high_bit(input[1])
    THEN copy_instruction(input, copy_bytes(input, 0, 1, <<>>))
    ELSE add_instruction(input, input[1] % 128)

RECURSIVE patch_loop(_, _, _)
RECURSIVE patch_apply(_, _, _)

\* the match of the loop of patch_delta on the instruction p
patch_apply(p, source, result) ==
    IF p.st # "ok" THEN p
    ELSE IF p.kind = "Copy"
    THEN IF p.offset + p.size > Len(source) THEN Panic  \* &source[offset..offset + size]
         ELSE patch_loop(p.rest, source,
                         result \o SubSeq(source, p.offset + 1, p.offset + p.size))
    ELSE patch_loop(p.rest, source, result \o p.data)

\* the while loop of patch_delta with the result so far
patch_loop(rest, source, result) ==
    IF rest = <<>> THEN [st |-> "ok", content |-> result]
    ELSE patch_apply(parse_patch_instruction(rest), source, result)

\* patch_delta after the source length s: the target length, the loop
patch_target(s, source) ==
    IF s.st # "ok" THEN s
    ELSE IF parse_size(s.rest).st # "ok" THEN parse_size(s.rest)
    ELSE patch_loop(parse_size(s.rest).rest, source, <<>>)

\* patch_delta(input, source): the two lengths are read and not used
patch_delta(input, source) == patch_target(parse_size(input), source)

----------------------------------------------------------------------------
(* pack.rs and transfer.rs: parse_pack_file *)

\* the two assertions at the top of parse_pack_file with the trailer left
\* unchecked
pack_verify_NoTrailer(input) ==
    IF Len(input) < 4 THEN PanicOf("range end index 4 out of range")
    ELSE IF SubSeq(input, 1, 4) # PACK THEN PanicOf("assertion failed: PACK")
    ELSE IF Len(input) < HashBytes THEN PanicOf("attempt to subtract with overflow")
    ELSE [st |-> "ok"]

\* the two assertions at the top of parse_pack_file: the signature, and the
\* last bytes against the digest of all the bytes before them
pack_verify(input) ==
    IF Len(input) < 4 THEN PanicOf("range end index 4 out of range")
    ELSE IF SubSeq(input, 1, 4) # PACK THEN PanicOf("assertion failed: PACK")
    ELSE IF Len(input) < HashBytes THEN PanicOf("attempt to subtract with overflow")
    ELSE IF hex_encode(SubSeq(input, Len(input) - HashBytes + 1, Len(input)))
            # hex_encode(Sha1(SubSeq(input, 1, Len(input) - HashBytes)))
         THEN PanicOf("pack file checksum failure")
    ELSE [st |-> "ok"]

\* the version, the object count and the slice the records are read from
\* (which still ends with the trailer)
pack_counts(input) ==
    IF Len(input) < 12 THEN Panic                      \* input[4] .. input[11]
    ELSE LET version == from_be_bytes(SubSeq(input, 5, 8)) IN
         IF version # 2 /\ version # 3 THEN PanicOf("assertion failed: version")
         ELSE [st |-> "ok", object_count |-> from_be_bytes(SubSeq(input, 9, 12)),
               rest |-> SliceFrom(input, 12)]

\* what the hasher is fed before the length: the type and a space
type_prefix(ty) ==
    CASE ty = "Commit" -> <<99, 111, 109, 109, 105, 116, 32>>
      [] ty = "Tree" -> <<116, 114, 101, 101, 32>>
      [] ty = "Blob" -> <<98, 108, 111, 98, 32>>
      [] ty = "Tag" -> <<116, 97, 103, 32>>

\* the hash block of the record loop
pack_hash(ty, content) ==
    hex_encode(Sha1(type_prefix(ty) \o to_string(Len(content)) \o <<NUL>> \o content))

\* HashMap::insert, File::create + write: the entry is made or replaced
insert(map, key, value) ==
    [k \in DOMAIN map \cup {key} |-> IF k = key THEN value ELSE map[k]]

\* one pass of the record loop of pack.rs on the slice input with the
\* HashMap map: an OfsDelta is todo!, a RefDelta is looked up in map alone
\* and becomes a Blob
\* (the steps take the parsed record p and the patched content d as
\* arguments)
pack_insert(p, map, ty, content) ==
    [st |-> "ok", rest |-> p.rest,
     objects |-> insert(map, pack_hash(ty, content),
                        [ty |-> ty, size |-> p.size, content |-> content])]

pack_patched(p, map, d) ==
    IF d.st # "ok" THEN d ELSE pack_insert(p, map, "Blob", d.content)

pack_resolve(p, map) ==
    IF p.st # "ok" THEN p
    ELSE IF p.ty = "OfsDelta" THEN PanicOf("not yet implemented: offset delta")
    ELSE IF p.ty = "RefDelta"
    THEN IF p.base \notin DOMAIN map
         THEN PanicOf("could not find delta reference object")
         ELSE pack_patched(p, map, patch_delta(p.content, map[p.base].content))
    ELSE pack_insert(p, map, p.ty, p.content)

pack_record(input, map) == pack_resolve(PackedObject_parse(input), map)

\* "test.pack"
TESTPACK == <<116, 101, 115, 116, 46, 112, 97, 99, 107>>

notPackVars ==
    <<hdrVars, pktVars, storeVars, remote, clonePc, refs, request, cloneOut, deltaVars>>

\* parse_pack_file up to the record loop; transfer.rs writes the input to
\* test.pack between the checksum and the version
PackOpened(v, c) ==
    /\ files' = IF v.st = "ok" /\ packFn = "transfer"
                THEN insert(files, TESTPACK, packIn)
                ELSE files
    /\ IF v.st # "ok"
       THEN packOut' = v /\ packPc' = "done" /\ UNCHANGED <<packRest, packCount>>
       ELSE IF c.st # "ok"
       THEN packOut' = c /\ packPc' = "done" /\ UNCHANGED <<packRest, packCount>>
       ELSE /\ packPc' = "records"
            /\ packRest' = c.rest
            /\ packCount' = c.object_count
            /\ UNCHANGED packOut

PackOpen ==
    /\ packPc = "start"
    /\ PackOpened(pack_verify(packIn), pack_counts(packIn))
    /\ UNCHANGED <<packFn, packIn, packI, objects, packLog, notPackVars>>

\* one pass of "for _ in 0..object_count": pack.rs resolves the record and
\* puts it in objects, transfer.rs parses it and prints a line
\* pack.rs: the pass ended as r
PackResolved(r) ==
    /\ IF r.st # "ok"
       THEN packOut' = r /\ packPc' = "done"
            /\ UNCHANGED <<packRest, packI, objects>>
       ELSE packRest' = r.rest /\ objects' = r.objects /\ packI' = packI + 1
            /\ UNCHANGED <<packOut, packPc>>
    /\ UNCHANGED packLog

\* transfer.rs: Object::parse ended as p
PackPrinted(p) ==
    /\ IF p.st # "ok"
       THEN packOut' = p /\ packPc' = "done"
            /\ UNCHANGED <<packRest, packI, packLog>>
       ELSE packRest' = p.rest /\ packI' = packI + 1
            /\ packLog' = Append(packLog,
                    [ty |-> p.ty, size |-> p.size,
                     compressed_size |-> Len(packRest) - Len(p.rest)])
            /\ UNCHANGED <<packOut, packPc>>
    /\ UNCHANGED objects

PackRecord ==
    /\ packPc = "records"
    /\ packI < packCount
    /\ IF packFn = "pack"
       THEN PackResolved(pack_record(packRest, objects))
       ELSE PackPrinted(PackedObject_parse(packRest))
    /\ UNCHANGED <<packFn, packIn, packCount, files, notPackVars>>

\* the loop is over: Ok(())
PackReturn ==
    /\ packPc = "records"
    /\ packI = packCount
    /\ packOut' = [st |-> "ok"]
    /\ packPc' = "done"
    /\ UNCHANGED <<packFn, packIn, packRest, packCount, packI, objects, packLog,
                   files, notPackVars>>

----------------------------------------------------------------------------
(* Specification SpecPack: parse_pack_file of pack.rs and of transfer.rs   *)
(* on packs of a few records, sound and damaged                            *)

\* the most records of a pack
MaxPackRecords == 2

\* u32::to_be_bytes
to_be_bytes(n) ==
    <<(n \div 16777216) % 256, (n \div 65536) % 256, (n \div 256) % 256, n % 256>>

\* a record of a plain type: the header (type code, the size in one byte
\* when below 16 and in two when below 2048), the compressed content
Record(code, content) ==
    (IF Len(content) < 16
     THEN <<(code * 16) + Len(content)>>
     ELSE <<128 + (code * 16) + (Len(content) % 16), Len(content) \div 16>>)
    \o ZlibEncode(content)

\* a RefDelta record: header byte, the raw identity of the base, the
\* compressed delta
RefDeltaRecord(base, delta) ==
    <<112 + (Len(delta) % 16)>> \o hex_decode(base) \o ZlibEncode(delta)

\* an OfsDelta record: header byte, the offset, the compressed delta
OfsDeltaRecord(offset, delta) ==
    <<96 + (Len(delta) % 16), offset>> \o ZlibEncode(delta)

\* the blob "x", the commit "c", deltas against each (copy one byte and add
\* "y"; add "d"), a delta against an identity no record has, a delta whose
\* copy runs past the base, an offset delta, a record of type 0
PackRecords ==
    {Record(3, <<120>>), Record(1, <<99>>),
     RefDeltaRecord(pack_hash("Blob", <<120>>), <<1, 2, 144, 1, 1, 121>>),
     RefDeltaRecord(pack_hash("Commit", <<99>>), <<1, 1, 1, 100>>),
     RefDeltaRecord(NoHash, <<1, 1, 1, 100>>),
     RefDeltaRecord(pack_hash("Blob", <<120>>), <<1, 1, 144, 5>>),
     OfsDeltaRecord(1, <<1, 1, 1, 100>>),
     <<0>>}

RECURSIVE Concat(_)
Concat(seqs) == IF seqs = <<>> THEN <<>> ELSE Head(seqs) \o Concat(Tail(seqs))

\* a digest with its first byte changed
Damaged(digest) == [digest EXCEPT ![1] = (digest[1] + 1) % 256]

\* the bytes of a pack: signature, version, count, records, trailer
PackBytes(magic, version, count, records, sound) ==
    LET body == magic \o to_be_bytes(version) \o to_be_bytes(count) \o Concat(records) IN
    body \o (IF sound THEN Sha1(body) ELSE Damaged(Sha1(body)))

\* packs of versions 1, 2, 3, with a count one above the records, with
\* another signature, with a damaged trailer; and input too short for a pack
Packs ==
    UNION {{PackBytes(PACK, 2, Len(rs), rs, TRUE), PackBytes(PACK, 3, Len(rs), rs, TRUE),
            PackBytes(PACK, 1, Len(rs), rs, TRUE), PackBytes(PACK, 2, Len(rs) + 1, rs, TRUE),
            PackBytes(<<80, 65, 67, 88>>, 2, Len(rs), rs, TRUE),
            PackBytes(PACK, 2, Len(rs), rs, FALSE),
            PackBytes(<<80, 65, 67, 88>>, 2, Len(rs), rs, FALSE)} :
           rs \in SeqsUpTo(PackRecords, MaxPackRecords)}
    \cup {<<>>, <<80, 65>>}

\* .git/objects when the pack arrives: empty, or holding the blob "x"
LocalStores == {<<>>, add(<<>>, Blob(<<120>>))}

PackInit ==
    /\ packFn \in {"pack", "transfer"}
    /\ packIn \in Packs
    /\ packPc = "start"
    /\ packRest = <<>>
    /\ packCount = 0
    /\ packI = 0
    /\ objects = <<>>
    /\ packLog = <<>>
    /\ packOut = Idle
    /\ wd = Idle
    /\ git_objects \in LocalStores
    /\ last = Idle
    /\ nAdds = 0
    /\ HdrIdle
    /\ PktIdle
    /\ CloneIdle
    /\ DeltaIdle

PackNext == PackOpen \/ PackRecord \/ PackReturn

SpecPack == PackInit /\ [][PackNext]_vars

----------------------------------------------------------------------------
(* C10 *)

\* the last HashBytes bytes of the pack are the digest of the bytes before
TrailerOk(input) ==
    /\ Len(input) >= HashBytes
    /\ SubSeq(input, Len(input) - HashBytes + 1, Len(input))
         = Sha1(SubSeq(input, 1, Len(input) - HashBytes))

\* C10: in every run of the pack decoder no record is parsed and no object
\* is registered unless the last bytes of the pack equal the digest of all
\* the bytes before them; on a mismatch the decoder ends in failure (the
\* failed assertion "pack file checksum failure" when the signature is
\* there) and has registered nothing.
C10_TrailerGatesDecoding ==
    packPc # "off" =>
        /\ (packPc = "records" \/ packI > 0 \/ objects # <<>> \/ packLog # <<>>
            \/ packOut.st = "ok") => TrailerOk(packIn)
        /\ (packPc = "done" /\ ~TrailerOk(packIn)) =>
                /\ packOut.st = "panic"
                /\ starts_with(packIn, PACK) =>
                        packOut = PanicOf("pack file checksum failure")
                /\ packI = 0
                /\ objects = <<>>
                /\ packLog = <<>>

\* a pack with the signature, a record and a wrong trailer has been
\* refused
C10_Witness ==
    /\ packPc = "done"
    /\ starts_with(packIn, PACK)
    /\ Len(packIn) > 12 + HashBytes + 8
    /\ ~TrailerOk(packIn)
    /\ packOut = PanicOf("pack file checksum failure")
    /\ objects = <<>>

----------------------------------------------------------------------------
(* transfer.rs: ls_remote and clone *)

\* "HEAD", "refs/heads", "want ", "agent=git/1.8.1", "0009done\n", "NAK"
HEAD == <<72, 69, 65, 68>>
REFS_HEADS == <<114, 101, 102, 115, 47, 104, 101, 97, 100, 115>>
WANT == <<119, 97, 110, 116, 32>>
MY_CAPABILITIES == <<97, 103, 101, 110, 116, 61, 103, 105, 116, 47, 49, 46, 56, 46, 49>>
DONE == <<48, 48, 48, 57, 100, 111, 110, 101, 10>>
NAK == <<78, 65, 75>>

\* the content types asserted
ADVERTISEMENT == "application/x-git-upload-pack-advertisement"
RESULT == "application/x-git-upload-pack-result"

\* one ref line (the i-th, from 0) given the places of its first zero byte
\* and of the first space of its ref_info, each -1 when there is none
ref_of_line(line, i, nul, sp) ==
    IF nul >= 0 /\ i # 0 THEN Err    \* bail!("capabilities should only accompany first ref")
    ELSE IF sp < 0 THEN Panic        \* split_once(' ').unwrap()
    ELSE [st |-> "ok",
          ref |-> [hash |-> SubSeq(line, 1, sp),
                   name |-> SubSeq(line, sp + 2, IF nul >= 0 THEN nul ELSE Len(line))],
          capabilities |-> IF nul >= 0 THEN SliceFrom(line, nul + 1) ELSE <<>>]

\* from_utf8(ref_line)?, split_once('\0'), split_once(' ')
parse_ref_line(line, i) ==
    IF NotUtf8(line) THEN Err
    ELSE ref_of_line(line, i, IndexOf(line, NUL, 0),
                     IndexOf(IF IndexOf(line, NUL, 0) >= 0
                             THEN SubSeq(line, 1, IndexOf(line, NUL, 0))
                             ELSE line, SP, 0))

RECURSIVE ref_lines_loop(_, _, _, _)
RECURSIVE ref_lines_push(_, _, _, _, _)

ref_lines_push(r, ref_lines, i, found, capabilities) ==
    IF r.st # "ok" THEN r
    ELSE ref_lines_loop(ref_lines, i + 1, Append(found, r.ref),
                        IF i = 0 THEN r.capabilities ELSE capabilities)

\* the for loop of ls_remote over ref_lines from the i-th line on
ref_lines_loop(ref_lines, i, found, capabilities) ==
    IF i >= Len(ref_lines)
    THEN [st |-> "ok", refs |-> found, capabilities |-> capabilities]
    ELSE ref_lines_push(parse_ref_line(ref_lines[i + 1], i), ref_lines, i, found,
                        capabilities)

\* ls_remote after the second parse_packet_lines
ls_remote_refs(r) ==
    IF r.st # "ok" THEN [st |-> r.st]
    ELSE IF r.rest # <<>> THEN Panic                   \* assert!(rest.is_empty())
    ELSE ref_lines_loop(r.lines, 0, <<>>, <<>>)

\* ls_remote after the first parse_packet_lines
ls_remote_service(r) ==
    IF r.st # "ok" THEN [st |-> r.st]
    ELSE IF Len(r.lines) # 1 THEN Panic                \* assert_eq!(lines.len(), 1)
    ELSE IF r.lines[1] # SERVICE THEN Panic
    ELSE ls_remote_refs(parse_packet_lines(r.rest))

\* ls_remote on the answer to GET <url>/info/refs?service=git-upload-pack:
\* (refs, capabilities); the capability list is kept as the one string
\* after the zero byte
ls_remote(resp) ==
    IF resp.st # "ok" THEN Err                         \* request.send()?
    ELSE IF resp.status # 200 /\ resp.status # 304 THEN Panic
    ELSE IF resp.content_type # ADVERTISEMENT THEN Panic
    ELSE ls_remote_service(parse_packet_lines(resp.body))

RECURSIVE want_lines(_, _)
\* the for loop over wanted_refs from the i-th on: "want <hash>", on the
\* first line a zero byte and the capabilities, framed with a newline
want_lines(wanted_refs, i) ==
    IF i >= Len(wanted_refs) THEN <<>>
    ELSE Hex4(5 + Len(wanted_refs[i + 1].hash) + (IF i = 0 THEN 1 + Len(MY_CAPABILITIES) ELSE 0)
              + 4 + 1)
         \o WANT \o wanted_refs[i + 1].hash
         \o (IF i = 0 THEN <<NUL>> \o MY_CAPABILITIES ELSE <<>>)
         \o <<LF>>
         \o want_lines(wanted_refs, i + 1)

\* the refs whose name starts with "refs/heads"
wanted(found) == SelectSeq(found, LAMBDA r : starts_with(r.name, REFS_HEADS))

\* request_body
want_request(found) == want_lines(wanted(found), 0) \o FLUSH \o DONE \o FLUSH

\* clone after parse_packet_lines(data): the pack file, lines[1]
fetch_lines(r) ==
    IF r.st # "ok" THEN [st |-> r.st]
    ELSE IF r.rest # <<>> THEN Panic                   \* assert!(rest.is_empty())
    ELSE IF Len(r.lines) < 1 THEN Panic                \* lines[0]
    ELSE IF r.lines[1] # NAK THEN Panic
    ELSE IF Len(r.lines) < 2 THEN Panic                \* lines[1]
    ELSE [st |-> "ok", pack_file |-> r.lines[2]]

\* clone on the answer to POST <url>/git-upload-pack
fetch(resp) ==
    IF resp.st # "ok" THEN Err                         \* request.send()?
    ELSE IF resp.status < 200 \/ resp.status > 299 THEN Panic
    ELSE IF resp.content_type # RESULT THEN Panic
    ELSE fetch_lines(parse_packet_lines(resp.body))

notCloneVars == <<hdrVars, pktVars, storeVars, deltaVars>>

CloneListed(r) ==
    IF r.st # "ok"
    THEN cloneOut' = [st |-> r.st] /\ clonePc' = "done" /\ UNCHANGED refs
    ELSE refs' = r.refs /\ clonePc' = "fetch" /\ UNCHANGED cloneOut

\* clone: ls_remote(&repo_url)?
CloneLsRemote ==
    /\ clonePc = "start"
    /\ CloneListed(ls_remote(remote.advertisement))
    /\ UNCHANGED <<remote, request, files, packVars, notCloneVars>>

CloneFetched(r) ==
    IF r.st # "ok"
    THEN cloneOut' = [st |-> r.st] /\ clonePc' = "done"
         /\ UNCHANGED <<packFn, packIn, packPc>>
    ELSE /\ packFn' = "transfer"
         /\ packIn' = r.pack_file
         /\ packPc' = "start"
         /\ clonePc' = "pack"
         /\ UNCHANGED cloneOut

\* clone: the want request, its answer, up to the call of parse_pack_file
CloneFetch ==
    /\ clonePc = "fetch"
    /\ request' = want_request(refs)
    /\ CloneFetched(fetch(remote.result))
    /\ UNCHANGED <<remote, refs, files, packRest, packCount, packI, objects, packLog,
                   packOut, notCloneVars>>

\* clone: parse_pack_file(pack_file)?; Ok(())
CloneReturn ==
    /\ clonePc = "pack"
    /\ packPc = "done"
    /\ cloneOut' = [st |-> packOut.st]
    /\ clonePc' = "done"
    /\ UNCHANGED <<remote, refs, request, files, packVars, notCloneVars>>

----------------------------------------------------------------------------
(* Specification SpecClone: clone against a server that holds a small      *)
(* repository and answers well or badly, into an empty directory           *)

\* the repository served: the blob "x", the tree with the file a, a commit
\* of it and a second commit whose parent is the first
RepoBlob == Blob(<<120>>)
RepoTree == Tree(<<TreeEntry(to_octal(S_IFREG + 420), <<97>>, hash(RepoBlob))>>)
RepoCommit == Commit(hash(RepoTree), <<>>, <<109>>, 7)
RepoCommit2 == Commit(hash(RepoTree), <<hash(RepoCommit)>>, <<110>>, 7)

\* "refs/heads/master", "refs/heads/dev", "refs/tags/v1"
MASTER == REFS_HEADS \o <<47, 109, 97, 115, 116, 101, 114>>
DEV == REFS_HEADS \o <<47, 100, 101, 118>>
TAG_V1 == <<114, 101, 102, 115, 47, 116, 97, 103, 115, 47, 118, 49>>
\* "refs/heads-old/x": outside refs/heads/, with a name that starts alike
HEADS_OLD == REFS_HEADS \o <<45, 111, 108, 100, 47, 120>>

Ref(h, name) == [hash |-> h, name |-> name]

\* what a server holds: the refs it advertises (HEAD first), the objects
\* its pack carries, the files of the tree of the HEAD commit
Repos ==
    {[refs |-> <<Ref(hash(RepoCommit), HEAD), Ref(hash(RepoCommit), MASTER)>>,
      objs |-> <<RepoCommit, RepoTree, RepoBlob>>,
      tree |-> {<<97>>}],
     [refs |-> <<Ref(hash(RepoCommit2), HEAD), Ref(hash(RepoCommit2), MASTER),
                 Ref(hash(RepoCommit), TAG_V1)>>,
      objs |-> <<RepoCommit2, RepoCommit, RepoTree, RepoBlob>>,
      tree |-> {<<97>>}],
     [refs |-> <<Ref(hash(RepoCommit), HEAD), Ref(hash(RepoCommit), DEV),
                 Ref(hash(RepoCommit2), MASTER)>>,
      objs |-> <<RepoCommit, RepoCommit2, RepoTree, RepoBlob>>,
      tree |-> {<<97>>}],
     [refs |-> <<Ref(hash(RepoCommit2), HEAD), Ref(hash(RepoCommit), HEADS_OLD),
                 Ref(hash(RepoCommit2), MASTER)>>,
      objs |-> <<RepoCommit2, RepoCommit, RepoTree, RepoBlob>>,
      tree |-> {<<97>>}]}

\* the type code of a record for an object
TypeCode(o) ==
    CASE o.kind = "Commit" -> 1 [] o.kind = "Tree" -> 2 [] o.kind = "Blob" -> 3

\* an HTTP response received
Response(status, content_type, body) ==
    [st |-> "ok", status |-> status, content_type |-> content_type, body |-> body]

\* "multi_ack"
ServerCaps == <<109, 117, 108, 116, 105, 95, 97, 99, 107>>

\* the ref lines of an advertisement; caps says which lines carry a
\* capability list
RefLines(found, caps) ==
    [i \in 1..Len(found) |->
        found[i].hash \o <<SP>> \o found[i].name
        \o (IF i \in caps THEN <<NUL>> \o ServerCaps ELSE <<>>) \o <<LF>>]

\* the body of a good advertisement
AdvertisementBody(repo, caps) ==
    PktLine(SERVICE \o <<LF>>) \o FLUSH \o PktFrame(RefLines(repo.refs, caps)) \o FLUSH

\* the pack of a repository
RepoPack(repo, sound) ==
    PackBytes(PACK, 2, Len(repo.objs),
              [i \in 1..Len(repo.objs) |->
                  Record(TypeCode(repo.objs[i]), Encoded(repo.objs[i]))],
              sound)

\* the answers to the GET: the advertisement, a 404, another content
\* type, a 304 without a body, no service section, capabilities on the
\* second line too, a ref line without a space, no answer
Advertisements(repo) ==
    {Response(200, ADVERTISEMENT, AdvertisementBody(repo, {1})),
     Response(404, ADVERTISEMENT, <<>>),
     Response(200, "text/plain", AdvertisementBody(repo, {1})),
     Response(304, ADVERTISEMENT, <<>>),
     Response(200, ADVERTISEMENT, PktFrame(RefLines(repo.refs, {1})) \o FLUSH),
     Response(200, ADVERTISEMENT, AdvertisementBody(repo, {1, 2})),
     Response(200, ADVERTISEMENT,
              PktLine(SERVICE \o <<LF>>) \o FLUSH \o PktLine(HEAD \o <<LF>>) \o FLUSH),
     Err}

\* the answers to the POST: NAK and the pack, a 500, another content type,
\* no NAK, NAK alone, a pack with a damaged trailer, no answer
Results(repo) ==
    {Response(200, RESULT, PktLine(NAK \o <<LF>>) \o RepoPack(repo, TRUE)),
     Response(500, RESULT, <<>>),
     Response(200, "text/plain", PktLine(NAK \o <<LF>>) \o RepoPack(repo, TRUE)),
     Response(200, RESULT, RepoPack(repo, TRUE)),
     Response(200, RESULT, PktLine(NAK \o <<LF>>) \o FLUSH),
     Response(200, RESULT, PktLine(NAK \o <<LF>>) \o RepoPack(repo, FALSE)),
     Err}

Remotes ==
    UNION {{[repo |-> repo, advertisement |-> a, result |-> r] :
               a \in Advertisements(repo), r \in Results(repo)} : repo \in Repos}

CloneInit ==
    /\ remote \in Remotes
    /\ clonePc = "start"
    /\ refs = <<>>
    /\ request = <<>>
    /\ cloneOut = Idle
    /\ files = <<>>
    /\ HdrIdle
    /\ PktIdle
    /\ StoreIdle
    /\ PackIdle
    /\ DeltaIdle

CloneNext ==
    CloneLsRemote \/ CloneFetch \/ PackOpen \/ PackRecord \/ PackReturn \/ CloneReturn

SpecClone == CloneInit /\ [][CloneNext]_vars

----------------------------------------------------------------------------
(* C1, C2 *)

\* the path of a file under .git
GitPath(name) == DOTGIT \o <<47>> \o name

\* the object of that identity is a file of .git/objects
Installed(id) == ObjectPath(id) \in DOMAIN git_objects

\* the refs ls_remote returned, HEAD left out
AdvertisedRefs == {refs[i] : i \in {j \in 1..Len(refs) : refs[j].name # HEAD}}

\* C1: in every run of clone the writes are ordered: a reference file is
\* written only when the object it names is installed, .git/HEAD only when
\* every advertised reference other than HEAD is written, a file of the
\* working tree only when .git/HEAD is written; and a clone that returns
\* success has installed every object of the pack, written every
\* advertised reference, written .git/HEAD and materialized the tree.
C1_CloneWritesInOrder ==
    clonePc # "off" =>
        /\ \A r \in AdvertisedRefs :
                GitPath(r.name) \in DOMAIN files => Installed(r.hash)
        /\ GitPath(HEAD) \in DOMAIN files =>
                \A r \in AdvertisedRefs : GitPath(r.name) \in DOMAIN files
        /\ (remote.repo.tree \cap DOMAIN files # {}) => GitPath(HEAD) \in DOMAIN files
        /\ cloneOut.st = "ok" =>
                /\ \A i \in 1..Len(remote.repo.objs) : Installed(hash(remote.repo.objs[i]))
                /\ \A r \in AdvertisedRefs : GitPath(r.name) \in DOMAIN files
                /\ GitPath(HEAD) \in DOMAIN files
                /\ remote.repo.tree \subseteq DOMAIN files

\* the identities an object names: the tree and the parent of a commit,
\* the targets of the entries of a tree
Targets(o) ==
    CASE o.kind = "Commit" ->
            {o.tree_hash} \cup {o.parent_hash[i] : i \in 1..Len(o.parent_hash)}
      [] o.kind = "Tree" -> {o.entries[i].hash : i \in 1..Len(o.entries)}
      [] OTHER -> {}

RECURSIVE Reachable(_, _, _)
\* the identities reachable from ids through the objects objs in n steps
Reachable(ids, objs, n) ==
    IF n = 0 THEN ids
    ELSE Reachable(ids \cup UNION {Targets(objs[i]) :
                                      i \in {j \in 1..Len(objs) : hash(objs[j]) \in ids}},
                   objs, n - 1)

----------------------------------------------------------------------------
(* Specification SpecDelta: parse_patch_instruction on every bounded       *)
(* input, and patch_delta on deltas made of a few instructions             *)

\* the longest input of parse_patch_instruction
MaxInsLen == 3

\* the most instructions of a delta
MaxPatchInstrs == 2

\* first bytes: Add of 0, 1, 2 bytes; Copy with the masks 0x80, 0x81, 0x85,
\* 0x88, 0x90, 0x91, 0xb0; data bytes 0x12 and 0xab
InsBytes == {0, 1, 2, 18, 171, 128, 129, 133, 136, 144, 145, 176}

\* the offset of a Copy fits the integers of the model: the byte for bit 3
\* of the mask, when there is one, is below 128
OffsetFits(input) ==
    \/ Len(input) = 0
    \/ ~high_bit(input[1])
    \/ ~BitSet(input[1], 3)
    \/ \A i \in 2..Len(input) :
            Cardinality({j \in 0..2 : BitSet(input[1], j)}) = i - 2 => input[i] < 128

InsInputs == {input \in SeqsUpTo(InsBytes, MaxInsLen) : OffsetFits(input)}

\* an instruction as it was meant, before it is encoded
Insert(data) == [kind |-> "Insert", data |-> data]
CopyOf(offset, size) == [kind |-> "Copy", offset |-> offset, size |-> size]

\* the bytes of an instruction: an Insert is its count and its data, a Copy
\* has the mask 0x91, one offset byte and one size byte
InstrBytes(ins) ==
    IF ins.kind = "Insert" THEN <<Len(ins.data)>> \o ins.data
    ELSE <<145, ins.offset, ins.size>>

\* inserts of "y", of "yz" and of nothing, copies inside a source of two
\* bytes, a copy past its end
PatchInstrs ==
    {Insert(<<121>>), Insert(<<121, 122>>), Insert(<<>>),
     CopyOf(0, 1), CopyOf(1, 1), CopyOf(0, 2), CopyOf(1, 5)}

RECURSIVE MeantLen(_)
\* the length of the target the instructions describe
MeantLen(instrs) ==
    IF instrs = <<>> THEN 0
    ELSE (IF Head(instrs).kind = "Insert" THEN Len(Head(instrs).data)
          ELSE Head(instrs).size) + MeantLen(Tail(instrs))

\* the sources "ab" and "a"; deltas that declare the length of the source
\* or one more, and the length of the target or one more
PatchSources ==
    {[source |-> b, source_len |-> sl, target_len |-> tl, instrs |-> is] :
        b \in {<<97, 98>>, <<97>>},
        sl \in {1, 2, 3}, tl \in {0, 1},
        is \in SeqsUpTo(PatchInstrs, MaxPatchInstrs)}

\* the delta: the two lengths, each in one byte, and the instructions
DeltaBytes(src) ==
    <<src.source_len, MeantLen(src.instrs) + src.target_len>>
    \o Concat([i \in 1..Len(src.instrs) |-> InstrBytes(src.instrs[i])])

DeltaInit ==
    /\ \/ /\ insIn \in InsInputs
          /\ insOut = Idle
          /\ insPc = "start"
          /\ PatchIdle
       \/ /\ patchSrc \in PatchSources
          /\ patchIn = DeltaBytes(patchSrc)
          /\ patchOut = Idle
          /\ patchPc = "start"
          /\ InsIdle
    /\ HdrIdle
    /\ PktIdle
    /\ StoreIdle
    /\ PackIdle
    /\ CloneIdle

notDeltaVars == <<hdrVars, pktVars, storeVars, packVars, cloneVars>>

ParsePatchInstruction ==
    /\ insPc = "start"
    /\ insOut' = parse_patch_instruction(insIn)
    /\ insPc' = "done"
    /\ UNCHANGED <<insIn, patchSrc, patchIn, patchOut, patchPc, notDeltaVars>>

PatchDelta ==
    /\ patchPc = "start"
    /\ patchOut' = patch_delta(patchIn, patchSrc.source)
    /\ patchPc' = "done"
    /\ UNCHANGED <<patchSrc, patchIn, insIn, insOut, insPc, notDeltaVars>>

DeltaNext == ParsePatchInstruction \/ PatchDelta

SpecDelta == DeltaInit /\ [][DeltaNext]_vars

----------------------------------------------------------------------------
(* C11 *)

\* the bits set in mask among bits lo..hi
Popcount(mask, lo, hi) == Cardinality({j \in lo..hi : BitSet(mask, j)})

\* the byte of the input that bit i of the mask selects, 0 when the bit is
\* clear: the bytes follow the mask in the order of their bits
SelectedByte(input, i) ==
    IF BitSet(input[1], i) THEN input[2 + Popcount(input[1], 0, i - 1)] ELSE 0

\* the input is a whole Copy instruction, followed by anything
WholeCopy(input) ==
    /\ Len(input) >= 1
    /\ high_bit(input[1])
    /\ Len(input) >= 1 + Popcount(input[1], 0, 6)

\* the little-endian values of the offset bytes and of the size bytes
CopyOffset(input) ==
    SelectedByte(input, 0) + 256 * SelectedByte(input, 1)
    + 65536 * SelectedByte(input, 2) + 16777216 * SelectedByte(input, 3)

CopySize(input) ==
    SelectedByte(input, 4) + 256 * SelectedByte(input, 5) + 65536 * SelectedByte(input, 6)

\* C11: an instruction whose first byte has the high bit set decodes to a
\* Copy whose offset is the little-endian value of the offset bytes that
\* mask bits 0-3 select and whose size is the little-endian value of the
\* size bytes that mask bits 4-6 select, absent bytes being 0 and a size of
\* 0 standing for 0x10000; 1 + popcount(mask) bytes are consumed.  So
\* [0x85, 0x12, 0xab] is a Copy of offset 0x00ab0012 and size 0x10000.
C11_CopyDecodes ==
    (insPc = "done" /\ WholeCopy(insIn)) =>
        /\ insOut.st = "ok"
        /\ insOut.kind = "Copy"
        /\ insOut.offset = CopyOffset(insIn)
        /\ insOut.size = (IF CopySize(insIn) = 0 THEN 65536 ELSE CopySize(insIn))
        /\ insOut.rest = SliceFrom(insIn, 1 + Popcount(insIn[1], 0, 6))

\* the same with a size of 0 left as 0, as the repository's test has it:
\* [0x85, 0x12, 0xab] is a Copy of offset 11206674 and size 0
C11_CopyFieldsDecode ==
    (insPc = "done" /\ WholeCopy(insIn)) =>
        /\ insOut.st = "ok"
        /\ insOut.kind = "Copy"
        /\ insOut.offset = CopyOffset(insIn)
        /\ insOut.size = CopySize(insIn)
        /\ insOut.rest = SliceFrom(insIn, 1 + Popcount(insIn[1], 0, 6))
        /\ insIn = <<133, 18, 171>> =>
                insOut.offset = 11206674 /\ insOut.size = 0 /\ insOut.rest = <<>>

----------------------------------------------------------------------------
(* C12 *)

\* the input is a whole Insert instruction of n > 0 bytes, followed by
\* anything
WholeInsert(input) ==
    /\ Len(input) >= 1
    /\ ~high_bit(input[1])
    /\ input[1] > 0
    /\ Len(input) >= 1 + input[1]

RECURSIVE MeantTarget(_, _)
\* the target the instructions describe over the source, in their order
MeantTarget(instrs, source) ==
    IF instrs = <<>> THEN <<>>
    ELSE (IF Head(instrs).kind = "Insert" THEN Head(instrs).data
          ELSE SubSeq(source, Head(instrs).offset + 1,
                      Head(instrs).offset + Head(instrs).size))
         \o MeantTarget(Tail(instrs), source)

\* every instruction is an Insert of at least one byte
InsertsOnly(instrs) ==
    \A i \in 1..Len(instrs) : instrs[i].kind = "Insert" /\ instrs[i].data # <<>>

\* C12: an instruction whose first byte has the high bit clear and a value
\* n > 0 decodes to an Insert of exactly the next n bytes, consumes 1 + n
\* bytes and returns the rest of the input; a delta that is applied has the
\* bytes of its Inserts appended verbatim to the target, in instruction
\* order, and a delta of Inserts alone is applied.
C12_InsertDecodesAndAppends ==
    /\ (insPc = "done" /\ WholeInsert(insIn)) =>
            /\ insOut.st = "ok"
            /\ insOut.kind = "Add"
            /\ insOut.data = SubSeq(insIn, 2, 1 + insIn[1])
            /\ insOut.rest = SubSeq(insIn, 2 + insIn[1], Len(insIn))
    /\ (patchPc = "done" /\ patchOut.st = "ok") =>
            patchOut.content = MeantTarget(patchSrc.instrs, patchSrc.source)
    /\ (patchPc = "done" /\ InsertsOnly(patchSrc.instrs)
            /\ patchSrc.source_len = Len(patchSrc.source) /\ patchSrc.target_len = 0) =>
            patchOut.st = "ok"

\* an Insert of one byte was decoded with a byte left over
C12_Witness ==
    /\ insPc = "done"
    /\ insIn = <<1, 18, 171>>
    /\ insOut.st = "ok"
    /\ insOut.kind = "Add"
    /\ insOut.data = <<18>>
    /\ insOut.rest = <<171>>

\* a delta of an Insert and a Copy was applied
C12_Applied ==
    /\ patchPc = "done"
    /\ patchSrc.instrs = <<Insert(<<121, 122>>), CopyOf(1, 1)>>
    /\ patchSrc.source = <<97, 98>>
    /\ patchOut.st = "ok"
    /\ patchOut.content = <<121, 122, 98>>

----------------------------------------------------------------------------
(* C13 *)

\* "refs/heads/"
BRANCHES == REFS_HEADS \o <<47>>

\* the digits 0-9 and a-f
LowerHex == (48..57) \cup (97..102)

\* the advertised refs whose name begins with "refs/heads/", in order
Branches(found) == SelectSeq(found, LAMBDA r : starts_with(r.name, BRANCHES))

\* the value of one of them
LowerHexValue(c) == IF c <= 57 THEN c - 48 ELSE c - 87

\* the payload of the want line of the i-th branch: the capability list
\* follows a zero byte on the first line only
WantPayload(r, i) ==
    WANT \o r.hash \o (IF i = 1 THEN <<NUL>> \o MY_CAPABILITIES ELSE <<>>) \o <<LF>>

\* bytes is the packet line of the payload: four lowercase hex digits whose
\* value is the length of the line, then the payload
IsPktLineOf(bytes, payload) ==
    /\ Len(bytes) = 4 + Len(payload)
    /\ \A k \in 1..4 : bytes[k] \in LowerHex
    /\ 4096 * LowerHexValue(bytes[1]) + 256 * LowerHexValue(bytes[2])
       + 16 * LowerHexValue(bytes[3]) + LowerHexValue(bytes[4]) = Len(bytes)
    /\ SubSeq(bytes, 5, Len(bytes)) = payload

\* where the want line of the i-th branch starts in the body
WantStart(bs, i) ==
    IF i = 1 THEN 1
    ELSE 1 + (4 + Len(WantPayload(bs[1], 1))) + (i - 2) * (4 + Len(WantPayload(bs[2], 2)))

\* C13: the want request of clone holds one packet line "want <hex>\n" for
\* each advertised ref whose name begins with "refs/heads/" and none for any
\* other ref, each line with a prefix of four lowercase hex digits giving
\* its length, the first line alone with "\0agent=git/1.8.1" before the
\* newline; then "0000", "0009done\n" and "0000".
C13_WantRequest ==
    request # <<>> =>
        /\ Len(request)
            = Len(Branches(refs)) * (4 + 5 + HexLen + 1)
              + (IF Branches(refs) = <<>> THEN 0 ELSE 1 + Len(MY_CAPABILITIES))
              + Len(FLUSH \o DONE \o FLUSH)
        /\ \A i \in 1..Len(Branches(refs)) :
                IsPktLineOf(SubSeq(request, WantStart(Branches(refs), i),
                                   WantStart(Branches(refs), i) + 3
                                   + Len(WantPayload(Branches(refs)[i], i))),
                            WantPayload(Branches(refs)[i], i))
        /\ SubSeq(request, Len(request) - 16, Len(request)) = FLUSH \o DONE \o FLUSH

\* the same for the refs whose name starts with "refs/heads", with or
\* without a slash after it
C13_WantRequestOfWanted ==
    request # <<>> =>
        /\ Len(request)
            = Len(wanted(refs)) * (4 + 5 + HexLen + 1)
              + (IF wanted(refs) = <<>> THEN 0 ELSE 1 + Len(MY_CAPABILITIES))
              + Len(FLUSH \o DONE \o FLUSH)
        /\ \A i \in 1..Len(wanted(refs)) :
                IsPktLineOf(SubSeq(request, WantStart(wanted(refs), i),
                                   WantStart(wanted(refs), i) + 3
                                   + Len(WantPayload(wanted(refs)[i], i))),
                            WantPayload(wanted(refs)[i], i))
        /\ SubSeq(request, Len(request) - 16, Len(request)) = FLUSH \o DONE \o FLUSH

----------------------------------------------------------------------------
(* C14 *)

\* the four bytes are hex digits
FourHex(prefix) ==
    \A k \in 1..4 : prefix[k] \in (48..57) \cup (97..102) \cup (65..70)

\* the value of four hex digits
FourHexValue(prefix) ==
    4096 * HexValue(prefix[1]) + 256 * HexValue(prefix[2])
    + 16 * HexValue(prefix[3]) + HexValue(prefix[4])

\* the input is malformed at its first packet line: it ends before a length
\* prefix, or the prefix is not four hex digits, or its value is 1 to 3, or
\* it announces more bytes than remain
BadFirstLine(input) ==
    \/ Len(input) < 4
    \/ /\ SubSeq(input, 1, 4) # PACK
       /\ \/ ~FourHex(SubSeq(input, 1, 4))
          \/ FourHexValue(SubSeq(input, 1, 4)) \in 1..3
          \/ FourHexValue(SubSeq(input, 1, 4)) > Len(input)

\* C14: on every byte input parse_packet_lines returns either a remainder
\* and lines or an error value, and never aborts by an access out of range
\* or an arithmetic underflow; the error is returned when a length prefix
\* is not four hex digits, or has a value of 1 to 3, or announces more
\* bytes than remain, the input ending before a flush packet or a pack
\* included.
C14_ParsePacketLinesTotal ==
    pktPc = "done" =>
        /\ pktOut.st \in {"ok", "err"}
        /\ BadFirstLine(pktIn) => pktOut.st = "err"

\* a length prefix that is not four hex digits and has no leading '+' is
\* answered by the error value
C14_NotHexIsError ==
    (pktPc = "done" /\ Len(pktIn) >= 4 /\ SubSeq(pktIn, 1, 4) # PACK
        /\ ~FourHex(SubSeq(pktIn, 1, 4)) /\ pktIn[1] # 43) =>
        pktOut.st = "err"

----------------------------------------------------------------------------
(* C15 *)

\* the content of the object of that identity in .git/objects: what
\* follows the header and its zero byte
StoredContent(id) ==
    SliceFrom(ZlibDecode(git_objects[ObjectPath(id)]).content,
              IndexOf(ZlibDecode(git_objects[ObjectPath(id)]).content, NUL, 0) + 1)

\* the step registers an object whose content is the delta applied to the
\* base content, or ends as the application ended when it fails
ResolvedAgainst(delta, content) ==
    IF patch_delta(delta, content).st = "ok"
    THEN /\ packI' = packI + 1
         /\ \E k \in DOMAIN objects' :
                objects'[k].content = patch_delta(delta, content).content
    ELSE packOut' = patch_delta(delta, content)

\* the step on the ref-delta record p
RefDeltaStep(p) ==
    IF p.base \in DOMAIN objects THEN ResolvedAgainst(p.content, objects[p.base].content)
    ELSE IF Installed(p.base) THEN ResolvedAgainst(p.content, StoredContent(p.base))
    ELSE packOut' = PanicOf("could not find delta reference object")

\* the next record of the pack decoder of pack.rs is a ref-delta
AtRefDelta(p) ==
    /\ packFn = "pack"
    /\ packPc = "records"
    /\ packI < packCount
    /\ p.st = "ok"
    /\ p.ty = "RefDelta"

\* C15: a ref-delta record whose base is registered by an earlier record of
\* the pack, or is in the local store, is resolved by applying the delta
\* to the content of the base; the lookup of the base fails only when the
\* base is in neither.
C15_RefDeltaBaseFound ==
    [][AtRefDelta(PackedObject_parse(packRest)) /\ vars' # vars
        => RefDeltaStep(PackedObject_parse(packRest))]_vars

\* the same for a base looked for among the earlier records alone
InPackStep(p) ==
    IF p.base \in DOMAIN objects THEN ResolvedAgainst(p.content, objects[p.base].content)
    ELSE packOut' = PanicOf("could not find delta reference object")

C15_RefDeltaBaseInPack ==
    [][AtRefDelta(PackedObject_parse(packRest)) /\ vars' # vars
        => InPackStep(PackedObject_parse(packRest))]_vars

----------------------------------------------------------------------------
(* C16 *)

\* the digest of "<kind> <length>\0<content>" in hex
KindDigest(ty, content) ==
    hex_encode(Sha1(KindWord([kind |-> ty]) \o <<SP>> \o to_string(Len(content))
                    \o <<NUL>> \o content))

\* after the step the object of that kind and content is registered under
\* its digest
RegisteredAs(ty, content) ==
    /\ KindDigest(ty, content) \in DOMAIN objects'
    /\ objects'[KindDigest(ty, content)].ty = ty
    /\ objects'[KindDigest(ty, content)].content = content

\* the step that registers the record p: a delta has the kind of its base
\* and the content the delta gives on the content of the base
RegisterStep(p) ==
    IF p.ty = "RefDelta"
    THEN RegisteredAs(objects[p.base].ty,
                      patch_delta(p.content, objects[p.base].content).content)
    ELSE RegisteredAs(p.ty, p.content)

\* the pack decoder of pack.rs registers an object in this step
Registers == packFn = "pack" /\ packPc = "records" /\ packI' = packI + 1

\* C16: every object the pack decoder registers, one reassembled from a
\* delta included, is registered under the digest of
\* "<kind> <length>\0<content>" with its real kind, which for a delta is
\* the kind of its base, not blob.
C16_RegisteredUnderRealKind ==
    [][Registers => RegisterStep(PackedObject_parse(packRest))]_vars

\* the same with every delta taken for a blob
RegisterBlobStep(p) ==
    IF p.ty = "RefDelta"
    THEN RegisteredAs("Blob", patch_delta(p.content, objects[p.base].content).content)
    ELSE RegisteredAs(p.ty, p.content)

C16_RegisteredDeltaAsBlob ==
    [][Registers => RegisterBlobStep(PackedObject_parse(packRest))]_vars

----------------------------------------------------------------------------
(* C17 *)

\* every Copy lies inside the source and every Insert has a byte
SoundInstrs(src) ==
    \A i \in 1..Len(src.instrs) :
        IF src.instrs[i].kind = "Copy"
        THEN src.instrs[i].offset + src.instrs[i].size <= Len(src.source)
        ELSE src.instrs[i].data # <<>>

\* the delta declares the length of the source and the length of the
\* target its instructions give
SoundLengths(src) == src.source_len = Len(src.source) /\ src.target_len = 0

\* C17: applying a delta succeeds only if the source length it declares
\* (a little-endian varint of 7 bits a byte) is the length of the base,
\* every Copy lies inside the base, and the target has the declared
\* length; a zero-length Insert, a Copy out of range or a length mismatch
\* returns the error value and produces no target.
C17_DeltaApplies ==
    patchPc = "done" =>
        /\ patchOut.st = "ok" =>
                /\ SoundLengths(patchSrc)
                /\ SoundInstrs(patchSrc)
                /\ Len(patchOut.content) = patchIn[2]
        /\ ~(SoundLengths(patchSrc) /\ SoundInstrs(patchSrc)) => patchOut = Err

\* what holds of the lengths being left unread: applying succeeds exactly
\* when every Copy lies inside the source and every Insert has a byte
C17_AppliesWhenInstructionsSound ==
    patchPc = "done" => (patchOut.st = "ok" <=> SoundInstrs(patchSrc))

====
